---- MODULE Spec2Model ----
(***************************************************************************)
(* TreeOfWork (src/tree_of_work.h): a graph of Work nodes.  Each node has  *)
(* an atomic state, a list of children, a counter, a trigger condition and *)
(* a promise/future pair.  trigger() starts a detached worker thread;      *)
(* the worker finalizes through Control.set_completed / set_failed, which  *)
(* call done(); done() fans out to the children by calling their           *)
(* trigger().  One driver thread (main) wires the graph and then calls     *)
(* trigger(), wait_for_done() and reset().                                 *)
(*                                                                         *)
(* The reads and writes of shared members in trigger(), done() and reset() *)
(* are separate steps, so that the threads interleave as the code lets     *)
(* them; purely local steps are merged with the shared access they follow. *)
(* m_parent_count and m_promise_done are not atomic and not locked: where  *)
(* two threads race on one of them the step takes any of the outcomes the  *)
(* build produces.                                                         *)
(***************************************************************************)
EXTENDS Bags, FiniteSets, Integers, Sequences, TLC

\* ------------------------------------------------------------------ bounds
NumNodes == 4       \* Work objects constructed by the driver
MaxWire == 2        \* calls of execute_if_all_finished / execute_if_any_finished
MaxSet == 2         \* nodes in one WorkerSet argument
MaxOps == 2         \* calls of trigger / wait_for_done / reset by the driver

Nodes == 1..NumNodes

\* Work::State
State == {"Created", "Running", "Completed", "Failed"}
\* Work::Conditional
Conditional == {"OR", "AND"}

VARIABLES
    m_state,              \* [Nodes -> State]        std::atomic<Work::State>
    m_children,           \* [Nodes -> Seq(Nodes)]   Work::WorkerSet
    m_parent_count,       \* [Nodes -> Int]          size_t (see size_gt0)
    m_parent_done_count,  \* [Nodes -> Int]          size_t
    m_trigger_condition,  \* [Nodes -> Conditional]
    m_promise_done,       \* [Nodes -> BOOLEAN]      the promise holds a value
    promise_storage,      \* [Nodes -> BOOLEAN]      the promise owns the storage
                          \*   that set_value() fills and hands to the
                          \*   shared state
    m_is_done,            \* [Nodes -> BOOLEAN]      the future is valid()
    m_worker,             \* [Nodes -> Workers]      WorkerFunc
    threads,              \* bag of detached worker threads
    driver,               \* the driver thread (main)
    terminated,           \* std::terminate() was called
    launched              \* [Nodes -> Nat] worker threads started since the
                          \*   node's construction or last reset

vars == << m_state, m_children, m_parent_count, m_parent_done_count,
           m_trigger_condition, m_promise_done, promise_storage, m_is_done,
           m_worker, threads, driver, terminated, launched >>

\* what no thread writes once the graph is wired
wiring == << m_children, m_trigger_condition, m_worker >>

\* --------------------------------------------------------------- wiring
\* The fields the wiring helpers write, as one record.
Fields == [ children |-> m_children, count |-> m_parent_count,
            done_count |-> m_parent_done_count, cond |-> m_trigger_condition ]

\* set_trigger_condition as it would be if a condition, once AND, stayed
set_trigger_condition_once(f, node, c) ==
    IF f.cond[node] = "AND" THEN f ELSE [f EXCEPT !.cond[node] = c]

\* Work::set_trigger_condition, called on node
set_trigger_condition(f, node, c) == [f EXCEPT !.cond[node] = c]

\* Work::register_child, called on parent
register_child(f, parent, child) ==
    [f EXCEPT !.children[parent] = Append(@, child),
              !.count[parent] = @ + 1,
              !.done_count[parent] = f.count[parent] + 1]

\* the ascending sequence of a set of nodes (a WorkerSet argument)
RECURSIVE SetToSeq(_)
SetToSeq(S) ==
    IF S = {} THEN << >>
    ELSE LET m == CHOOSE x \in S : \A y \in S : x <= y
         IN << m >> \o SetToSeq(S \ {m})

\* inner loop: for( auto child : children )
RECURSIVE wire_children(_, _, _, _)
wire_children(f, parent, children, c) ==
    IF children = << >> THEN f
    ELSE wire_children(
            register_child(set_trigger_condition(f, Head(children), c),
                           parent, Head(children)),
            parent, Tail(children), c)

\* outer loop: for( auto parent : parents )
RECURSIVE wire_parents(_, _, _, _)
wire_parents(f, parents, children, c) ==
    IF parents = << >> THEN f
    ELSE wire_parents(wire_children(f, Head(parents), children, c),
                      Tail(parents), children, c)

\* Work::execute_if_all_finished
execute_if_all_finished(f, parents, children) ==
    wire_parents(f, parents, children, "AND")

\* Work::execute_if_any_finished
execute_if_any_finished(f, parents, children) ==
    wire_parents(f, parents, children, "OR")

\* The graphs the driver builds are acyclic and layered as in main: the
\* first call takes the first nodes as parents and the nodes that follow
\* them as children; a later call takes the children of the call before it
\* as parents, or repeats that call's arguments.
Min(a, b) == IF a <= b THEN a ELSE b

Layer(after, P) ==
    { << P, (after + 1)..c >> : c \in (after + 1)..Min(after + MaxSet, NumNodes) }

FirstArgs == UNION { Layer(b, 1..b) : b \in 1..MaxSet }

WireArgs ==
    IF driver.last = << >>
    THEN FirstArgs
    ELSE Layer(CHOOSE m \in driver.last[2] : \A x \in driver.last[2] : x <= m,
               driver.last[2])
         \cup {driver.last}

\* The driver between calls.  deep and stack belong to a reset() call in
\* progress; clear remembers for the properties whether, when that call was
\* made, no run was in flight in any node from which the subgraph of the
\* node can be reached (the code holds no such value).
Idle == [ pc |-> "idle", c |-> 0, ps |-> "none", tmp |-> 0, deep |-> FALSE,
          clear |-> FALSE, stack |-> << >>, wires |-> 0, last |-> << >>,
          ops |-> 0 ]

Wired(f, args) ==
    /\ m_children' = f.children
    /\ m_parent_count' = f.count
    /\ m_parent_done_count' = f.done_count
    /\ m_trigger_condition' = f.cond
    /\ driver' = [driver EXCEPT !.wires = @ + 1, !.last = args]
    /\ UNCHANGED << m_state, m_promise_done, promise_storage, m_is_done,
                    m_worker, threads, terminated, launched >>

\* main: the driver wires before it triggers anything
CanWire ==
    /\ ~terminated
    /\ driver.pc = "idle" /\ driver.ops = 0 /\ driver.wires < MaxWire

ExecuteIfAllFinished(P, C) ==
    /\ CanWire
    /\ Wired(execute_if_all_finished(Fields, SetToSeq(P), SetToSeq(C)), << P, C >>)

ExecuteIfAnyFinished(P, C) ==
    /\ CanWire
    /\ Wired(execute_if_any_finished(Fields, SetToSeq(P), SetToSeq(C)), << P, C >>)

\* ------------------------------------------------------------ trigger()
\* A thread inside trigger() is at one of these places; l.c is the node
\* trigger() was called on, l.ps its parent_state argument.
TriggerPcs == {"t_check", "t_test", "t_dec", "t_store", "t_gate", "t_run"}

\* m_parent_count is a size_t, and trigger() reads and writes it without
\* synchronisation.  A value v of it is written as the integer congruent to
\* v modulo 2^64 in -2^63 .. 2^63 - 1, so SIZE_MAX, to which 0 - 1 wraps,
\* is -1; the test v > 0 of an unsigned value is then v # 0.
size_gt0(v) == v # 0

\* run_now as it would be if every node were gated by its counter
run_now_counted(c) == m_parent_count[c] = 0

\* switch( m_trigger_condition ): the value of run_now
run_now(c) ==
    CASE m_trigger_condition[c] = "OR"  -> TRUE
      [] m_trigger_condition[c] = "AND" -> m_parent_count[c] = 0
      [] OTHER -> FALSE

\* trigger() as it would be without the test of parent_state
trigger_any_parent_state(l) ==
    CASE l.pc = "t_check" ->
            IF m_state[l.c] = "Created"
            THEN [l EXCEPT !.pc = "t_test"]
            ELSE [l EXCEPT !.pc = "t_ret"]
      [] l.pc = "t_test" ->
            IF size_gt0(m_parent_count[l.c])
            THEN [l EXCEPT !.pc = "t_dec"]
            ELSE [l EXCEPT !.pc = "t_gate"]
      [] l.pc = "t_dec" ->
            [l EXCEPT !.pc = "t_store", !.tmp = m_parent_count[l.c]]
      [] l.pc = "t_store" ->
            [l EXCEPT !.pc = "t_gate", !.tmp = 0]
      [] l.pc = "t_gate" ->
            IF run_now(l.c)
            THEN [l EXCEPT !.pc = "t_run"]
            ELSE [l EXCEPT !.pc = "t_ret"]
      [] l.pc = "t_run" ->
            [l EXCEPT !.pc = "t_ret"]

\* trigger() as it would be without the test of m_state
trigger_unguarded(l) ==
    CASE l.pc = "t_check" ->
            IF l.ps = "Completed"
            THEN [l EXCEPT !.pc = "t_test"]
            ELSE [l EXCEPT !.pc = "t_ret"]
      [] l.pc = "t_test" ->
            IF size_gt0(m_parent_count[l.c])
            THEN [l EXCEPT !.pc = "t_dec"]
            ELSE [l EXCEPT !.pc = "t_gate"]
      [] l.pc = "t_dec" ->
            [l EXCEPT !.pc = "t_store", !.tmp = m_parent_count[l.c]]
      [] l.pc = "t_store" ->
            [l EXCEPT !.pc = "t_gate", !.tmp = 0]
      [] l.pc = "t_gate" ->
            IF run_now(l.c)
            THEN [l EXCEPT !.pc = "t_run"]
            ELSE [l EXCEPT !.pc = "t_ret"]
      [] l.pc = "t_run" ->
            [l EXCEPT !.pc = "t_ret"]

\* the thread's own position after its next step of trigger()
trigger_local(l) ==
    CASE l.pc = "t_check" ->
            \* if ( m_state.load() == Created ) ... if ( parent_state == Completed )
            IF m_state[l.c] = "Created" /\ l.ps = "Completed"
            THEN [l EXCEPT !.pc = "t_test"]
            ELSE [l EXCEPT !.pc = "t_ret"]
      [] l.pc = "t_test" ->
            \* if ( m_parent_count > 0 ): the counter is read for the test,
            IF size_gt0(m_parent_count[l.c])
            THEN [l EXCEPT !.pc = "t_dec"]
            ELSE [l EXCEPT !.pc = "t_gate"]
      [] l.pc = "t_dec" ->
            \* m_parent_count--: read again,
            [l EXCEPT !.pc = "t_store", !.tmp = m_parent_count[l.c]]
      [] l.pc = "t_store" ->
            \* and what was read, less one, is written back
            [l EXCEPT !.pc = "t_gate", !.tmp = 0]
      [] l.pc = "t_gate" ->
            IF run_now(l.c)
            THEN [l EXCEPT !.pc = "t_run"]
            ELSE [l EXCEPT !.pc = "t_ret"]
      [] l.pc = "t_run" ->
            [l EXCEPT !.pc = "t_ret"]

\* The worker functions: that of make_empty_root(), a worker of the user
\* that finalizes once, and one that finalizes twice.
Workers == {"empty_root", "once", "twice"}

\* what a worker may report: the empty root calls control.set_completed()
Results(n) ==
    IF m_worker[n] = "empty_root" THEN {"Completed"} ELSE {"Completed", "Failed"}

\* a worker thread as std::thread( m_worker, m_control ) starts it
NewThread(n) == [ node |-> n, pc |-> "work", again |-> FALSE, result |-> "none",
                  i |-> 0, c |-> 0, ps |-> "none", tmp |-> 0 ]

\* the threads the step starts
trigger_spawn(l) ==
    IF l.pc = "t_run" THEN SetToBag({NewThread(l.c)}) ELSE EmptyBag

\* what the step writes to the node
trigger_shared(l) ==
    /\ m_parent_count' =
          IF l.pc = "t_store"
          THEN [m_parent_count EXCEPT ![l.c] = l.tmp - 1]
          ELSE m_parent_count
    /\ m_state' =
          IF l.pc = "t_run"
          THEN [m_state EXCEPT ![l.c] = "Running"]
          ELSE m_state
    /\ launched' =
          IF l.pc = "t_run"
          THEN [launched EXCEPT ![l.c] = @ + 1]
          ELSE launched
    /\ UNCHANGED << wiring, m_parent_done_count, m_promise_done,
                    promise_storage, m_is_done, terminated >>

\* ------------------------------------------------------- worker threads
\* thread t goes on as u; a thread whose worker function has returned ends
Replace(t, u) ==
    IF u.pc = "exit"
    THEN threads (-) SetToBag({t})
    ELSE (threads (-) SetToBag({t})) (+) SetToBag({u})

\* done( result ): m_state = result; t.result is the argument of the call
done_state(t, result, again) ==
    /\ m_state' = [m_state EXCEPT ![t.node] = result]
    /\ threads' = Replace(t, [t EXCEPT !.pc = "set_value", !.again = again,
                                       !.result = result])
    /\ UNCHANGED << wiring, m_parent_count, m_parent_done_count,
                    m_promise_done, promise_storage, m_is_done, driver,
                    terminated, launched >>

\* the worker calls control.set_completed() or control.set_failed(), once
Finalize(t, result) ==
    /\ ~terminated /\ t.pc = "work" /\ m_worker[t.node] # "twice"
    /\ done_state(t, result, FALSE)

\* the worker calls one of them and is going to call one again
FinalizeFirst(t, result) ==
    /\ ~terminated /\ t.pc = "work" /\ m_worker[t.node] = "twice"
    /\ done_state(t, result, TRUE)

\* the worker calls one of them the second time
FinalizeAgain(t, result) ==
    /\ ~terminated /\ t.pc = "work_again"
    /\ done_state(t, result, FALSE)

\* where done() goes on with child number i; after the last child done()
\* returns to the worker function
fan_out(t, i) ==
    IF i <= Len(m_children[t.node])
    THEN [t EXCEPT !.pc = "fanout", !.i = i, !.c = 0, !.ps = "none", !.tmp = 0]
    ELSE [t EXCEPT !.pc = IF t.again THEN "work_again" ELSE "exit",
                   !.result = "none", !.i = 0, !.c = 0, !.ps = "none", !.tmp = 0]

\* set_value() on the shared state of the promise as it is: a state that
\* holds a value throws std::future_error, which nothing in the thread
\* catches; a promise without storage makes the setter dereference a null
\* pointer.  Either ends the process.
set_value_current(t) ==
    IF m_promise_done[t.node] \/ ~promise_storage[t.node]
    THEN /\ terminated' = TRUE
         /\ UNCHANGED << m_promise_done, promise_storage, threads >>
    ELSE /\ m_promise_done' = [m_promise_done EXCEPT ![t.node] = TRUE]
         /\ threads' = Replace(t, fan_out(t, 1))
         /\ UNCHANGED << promise_storage, terminated >>

\* set_value() when reset() has replaced the promise since the thread
\* came to line 253 (line 225 is not synchronised with it: a data race).
\* The call had not yet taken the shared state and works on the new
\* promise; or it had taken the old one, and the setter fills the storage
\* of the promise as it is now, the new one, and moves it into the old
\* shared state, so that the new promise stays without a value and without
\* storage; or the process dies in the race.
set_value_replaced(t) ==
    \/ set_value_current(t)
    \/ /\ terminated' = TRUE
       /\ UNCHANGED << m_promise_done, promise_storage, threads >>
    \/ /\ promise_storage[t.node]
       /\ promise_storage' = [promise_storage EXCEPT ![t.node] = FALSE]
       /\ threads' = Replace(t, fan_out(t, 1))
       /\ UNCHANGED << m_promise_done, terminated >>

\* done(): m_promise_done.set_value( true )
DoneSetValue(t) ==
    /\ ~terminated /\ t.pc \in {"set_value", "set_value_replaced"}
    /\ IF t.pc = "set_value" THEN set_value_current(t) ELSE set_value_replaced(t)
    /\ UNCHANGED << m_state, wiring, m_parent_count, m_parent_done_count,
                    m_is_done, driver, launched >>

\* done() as it would be with child->trigger(), the default parent_state
DoneFanoutDefault(t) ==
    /\ ~terminated /\ t.pc = "fanout"
    /\ threads' = Replace(t, [t EXCEPT !.pc = "t_check",
                                       !.c = m_children[t.node][t.i],
                                       !.ps = "Completed"])
    /\ UNCHANGED << m_state, wiring, m_parent_count, m_parent_done_count,
                    m_promise_done, promise_storage, m_is_done, driver,
                    terminated, launched >>

\* done(): child->trigger( m_state.load() ) is called
DoneFanout(t) ==
    /\ ~terminated /\ t.pc = "fanout"
    /\ threads' = Replace(t, [t EXCEPT !.pc = "t_check",
                                       !.c = m_children[t.node][t.i],
                                       !.ps = m_state[t.node]])
    /\ UNCHANGED << m_state, wiring, m_parent_count, m_parent_done_count,
                    m_promise_done, promise_storage, m_is_done, driver,
                    terminated, launched >>

\* a step of trigger() called by done()
WorkerTrigger(t) ==
    /\ ~terminated /\ t.pc \in TriggerPcs
    /\ LET u == trigger_local(t)
       IN threads' = Replace(t, IF u.pc = "t_ret" THEN fan_out(u, t.i + 1) ELSE u)
                        (+) trigger_spawn(t)
    /\ trigger_shared(t)
    /\ UNCHANGED driver

\* ------------------------------------------------------------ the driver
\* Calls that return at once and change nothing are steps that change
\* nothing; ops counts the others.
CanCall == ~terminated /\ driver.pc = "idle" /\ driver.ops < MaxOps

\* a node no wiring call has made a child
IsRoot(n) ==
    \A p \in Nodes : \A k \in 1..Len(m_children[p]) : m_children[p][k] # n

\* root->trigger(): the driver triggers root nodes, with the default
\* parent_state; the step is the call and its m_state.load()
Trigger(n) ==
    /\ CanCall
    /\ IsRoot(n)
    /\ LET u == trigger_local([driver EXCEPT !.pc = "t_check", !.c = n,
                                             !.ps = "Completed"])
       IN IF u.pc = "t_ret"
          THEN UNCHANGED driver
          ELSE driver' = [u EXCEPT !.ops = @ + 1]
    /\ UNCHANGED << m_state, wiring, m_parent_count, m_parent_done_count,
                    m_promise_done, promise_storage, m_is_done, threads,
                    terminated, launched >>

\* a further step of trigger() called by the driver
DriverTrigger ==
    /\ ~terminated /\ driver.pc \in TriggerPcs
    /\ LET u == trigger_local(driver)
       IN driver' = IF u.pc = "t_ret"
                    THEN [u EXCEPT !.pc = "idle", !.c = 0, !.ps = "none", !.tmp = 0]
                    ELSE u
    /\ threads' = threads (+) trigger_spawn(driver)
    /\ trigger_shared(driver)

\* m_is_done.valid() && m_is_done.wait_for( 0 ) != ready
must_wait(n) == m_is_done[n] /\ ~m_promise_done[n]

\* node->wait_for_done(): the test
WaitForDone(n) ==
    /\ CanCall
    /\ IF must_wait(n)
       THEN driver' = [driver EXCEPT !.pc = "w_get", !.c = n, !.ops = @ + 1]
       ELSE UNCHANGED driver
    /\ UNCHANGED << m_state, wiring, m_parent_count, m_parent_done_count,
                    m_promise_done, promise_storage, m_is_done, threads,
                    terminated, launched >>

\* wait_for_done(): m_is_done.get() blocks until the promise holds a value
\* and leaves the future invalid
WaitGet ==
    /\ ~terminated /\ driver.pc = "w_get"
    /\ m_promise_done[driver.c]
    /\ m_is_done' = [m_is_done EXCEPT ![driver.c] = FALSE]
    /\ driver' = [driver EXCEPT !.pc = "idle", !.c = 0]
    /\ UNCHANGED << m_state, wiring, m_parent_count, m_parent_done_count,
                    m_promise_done, promise_storage, threads, terminated,
                    launched >>

\* the nodes reachable from the nodes of S through m_children
RECURSIVE Reachable(_)
Reachable(S) ==
    LET T == S \cup UNION { { m_children[p][k] : k \in 1..Len(m_children[p]) } : p \in S }
    IN IF T = S THEN S ELSE Reachable(T)

\* the nodes from which a node of S is reachable through m_children
RECURSIVE Reaching(_)
Reaching(S) ==
    LET T == S \cup { p \in Nodes : \E k \in 1..Len(m_children[p]) : m_children[p][k] \in S }
    IN IF T = S THEN S ELSE Reaching(T)

\* no worker thread belongs to a node of S: no run is in flight there
NoRunIn(S) == \A t \in BagToSet(threads) : t.node \notin S

Top == driver.stack[Len(driver.stack)]

\* reset(): if ( m_state.load() == Running ) wait_for_done(), up to the test
reset_check(n) == IF m_state[n] = "Running" /\ must_wait(n) THEN "r_get" ELSE "r_state"

\* node->reset( deep ): the call and its test
Reset(n, deep) ==
    /\ CanCall
    /\ driver' = [driver EXCEPT !.pc = reset_check(n), !.deep = deep,
                                !.clear = NoRunIn(Reaching(Reachable({n}))),
                                !.stack = << [node |-> n, i |-> 1] >>,
                                !.ops = @ + 1]
    /\ UNCHANGED << m_state, wiring, m_parent_count, m_parent_done_count,
                    m_promise_done, promise_storage, m_is_done, threads,
                    terminated, launched >>

\* reset(): wait_for_done(), m_is_done.get() returns, and m_state = Created
ResetGet ==
    /\ ~terminated /\ driver.pc = "r_get"
    /\ m_promise_done[Top.node]
    /\ m_is_done' = [m_is_done EXCEPT ![Top.node] = FALSE]
    /\ m_state' = [m_state EXCEPT ![Top.node] = "Created"]
    /\ launched' = [launched EXCEPT ![Top.node] = 0]
    /\ driver' = [driver EXCEPT !.pc = "r_promise"]
    /\ UNCHANGED << wiring, m_parent_count, m_parent_done_count,
                    m_promise_done, promise_storage, threads, terminated >>

\* reset(): m_state = Created
ResetState ==
    /\ ~terminated /\ driver.pc = "r_state"
    /\ m_state' = [m_state EXCEPT ![Top.node] = "Created"]
    /\ launched' = [launched EXCEPT ![Top.node] = 0]
    /\ driver' = [driver EXCEPT !.pc = "r_promise"]
    /\ UNCHANGED << wiring, m_parent_count, m_parent_done_count,
                    m_promise_done, promise_storage, m_is_done, threads,
                    terminated >>

\* reset() as it would be if deep were ignored: the call returns
reset_shallow(s, deep) == [pc |-> "idle", stack |-> << >>]

\* reset(): the loop over m_children, the calls child->reset( deep ) and
\* the returns; s is the stack of reset() calls in progress
RECURSIVE reset_next(_, _)
reset_next(s, deep) ==
    IF s = << >> THEN [pc |-> "idle", stack |-> << >>]
    ELSE LET top == s[Len(s)]
         IN IF deep /\ top.i <= Len(m_children[top.node])
            THEN [pc |-> "r_test",
                  stack |-> Append([s EXCEPT ![Len(s)].i = top.i + 1],
                                   [node |-> m_children[top.node][top.i], i |-> 1])]
            ELSE reset_next(SubSeq(s, 1, Len(s) - 1), deep)

\* the worker threads after reset() has replaced the promise of node n:
\* for those of node n that are at set_value() the promise was replaced
\* under the call
replaced_under(n) ==
    LET at == { t \in BagToSet(threads) : t.node = n /\ t.pc = "set_value" }
        old(t) == [t EXCEPT !.pc = "set_value_replaced"]
        cur(u) == [u EXCEPT !.pc = "set_value"]
    IN (threads (-) [t \in at |-> threads[t]])
          (+) [u \in { old(t) : t \in at } |-> threads[cur(u)]]

\* reset(): m_promise_done = std::promise<bool>() and its future
ResetPromise ==
    /\ ~terminated /\ driver.pc = "r_promise"
    /\ m_promise_done' = [m_promise_done EXCEPT ![Top.node] = FALSE]
    /\ promise_storage' = [promise_storage EXCEPT ![Top.node] = TRUE]
    /\ m_is_done' = [m_is_done EXCEPT ![Top.node] = TRUE]
    /\ threads' = replaced_under(Top.node)
    /\ driver' = [driver EXCEPT !.pc = "r_count"]
    /\ UNCHANGED << m_state, wiring, m_parent_count, m_parent_done_count,
                    terminated, launched >>

\* reset(): m_parent_done_count = m_parent_count; then the next child, if
\* deep, or the return
ResetCount ==
    /\ ~terminated /\ driver.pc = "r_count"
    /\ m_parent_done_count' =
          [m_parent_done_count EXCEPT ![Top.node] = m_parent_count[Top.node]]
    /\ LET nx == reset_next(driver.stack, driver.deep)
       IN driver' = [driver EXCEPT !.pc = nx.pc, !.stack = nx.stack,
                                   !.deep = IF nx.pc = "idle" THEN FALSE ELSE @,
                                   !.clear = IF nx.pc = "idle" THEN FALSE ELSE @]
    /\ UNCHANGED << m_state, wiring, m_parent_count, m_promise_done,
                    promise_storage, m_is_done, threads, terminated, launched >>

\* child->reset( deep ): the test of the child
ResetTest ==
    /\ ~terminated /\ driver.pc = "r_test"
    /\ driver' = [driver EXCEPT !.pc = reset_check(Top.node)]
    /\ UNCHANGED << m_state, wiring, m_parent_count, m_parent_done_count,
                    m_promise_done, promise_storage, m_is_done, threads,
                    terminated, launched >>

\* -------------------------------------------------------- specifications
\* the Work objects as Work::Work leaves them, each with its worker function
Constructed(workers) ==
    /\ m_state = [n \in Nodes |-> "Created"]
    /\ m_children = [n \in Nodes |-> << >>]
    /\ m_parent_count = [n \in Nodes |-> 0]
    /\ m_parent_done_count = [n \in Nodes |-> 0]
    /\ m_trigger_condition = [n \in Nodes |-> "OR"]
    /\ m_promise_done = [n \in Nodes |-> FALSE]
    /\ promise_storage = [n \in Nodes |-> TRUE]
    /\ m_is_done = [n \in Nodes |-> TRUE]
    /\ m_worker = workers
    /\ threads = EmptyBag
    /\ driver = Idle
    /\ terminated = FALSE
    /\ launched = [n \in Nodes |-> 0]

\* node 1 is made by make_empty_root() or, like the others, with a worker
\* of the user that finalizes once
Init ==
    \E w \in {"empty_root", "once"} :
        Constructed([n \in Nodes |-> IF n = 1 THEN w ELSE "once"])

\* the worker of node 2 finalizes twice
InitAgain ==
    Constructed([n \in Nodes |-> IF n = 1 THEN "empty_root"
                                 ELSE IF n = 2 THEN "twice" ELSE "once"])

\* nodes 1 and 2 have a worker of the user that finalizes once, Completed
\* or Failed; the others are made by make_empty_root()
InitQuiet ==
    Constructed([n \in Nodes |-> IF n \in {1, 2} THEN "once" ELSE "empty_root"])

\* main: the wiring calls
WireAll == \E a \in WireArgs : ExecuteIfAllFinished(a[1], a[2])
WireAny == \E a \in WireArgs : ExecuteIfAnyFinished(a[1], a[2])

\* main: root->trigger()
TriggerRoot == \E n \in Nodes : Trigger(n)

\* the threads the workers run on
WorkerFinalize ==
    \E t \in BagToSet(threads) : \E r \in Results(t.node) : Finalize(t, r)
WorkerFinalizeFirst ==
    \E t \in BagToSet(threads) : \E r \in Results(t.node) : FinalizeFirst(t, r)
WorkerFinalizeAgain ==
    \E t \in BagToSet(threads) : \E r \in Results(t.node) : FinalizeAgain(t, r)
WorkerSetValue == \E t \in BagToSet(threads) : DoneSetValue(t)
WorkerFanout == \E t \in BagToSet(threads) : DoneFanout(t)
WorkerTriggerChild == \E t \in BagToSet(threads) : WorkerTrigger(t)

\* The driver wires and triggers roots; every worker finalizes once.
Next ==
    \/ WireAll
    \/ WireAny
    \/ TriggerRoot
    \/ DriverTrigger
    \/ WorkerFinalize
    \/ WorkerSetValue
    \/ WorkerFanout
    \/ WorkerTriggerChild

Spec == Init /\ [][Next]_vars

\* The driver also waits.
WaitForNode == \E n \in Nodes : WaitForDone(n)

NextWait ==
    \/ Next
    \/ WaitForNode
    \/ WaitGet

SpecWait == Init /\ [][NextWait]_vars

\* Scheduling: a thread that can take its next step takes it, a worker
\* function finalizes, and a get() on a future that is ready returns.
Progress ==
    /\ WF_vars(DriverTrigger)
    /\ WF_vars(WorkerFinalize)
    /\ WF_vars(WorkerSetValue)
    /\ WF_vars(WorkerFanout)
    /\ WF_vars(WorkerTriggerChild)
    /\ WF_vars(WaitGet)

FairWait == SpecWait /\ Progress

\* The driver also resets.
ResetNode == \E n \in Nodes, deep \in BOOLEAN : Reset(n, deep)

NextReset ==
    \/ Next
    \/ ResetNode
    \/ ResetGet
    \/ ResetState
    \/ ResetPromise
    \/ ResetCount
    \/ ResetTest

SpecReset == Init /\ [][NextReset]_vars

\* The worker of node 2 finalizes twice.
NextAgain ==
    \/ Next
    \/ WorkerFinalizeFirst
    \/ WorkerFinalizeAgain

SpecAgain == InitAgain /\ [][NextAgain]_vars

\* The driver calls reset() on a node when no run is in flight in the
\* subgraph of the node: no worker thread belongs to the node or to a node
\* reachable from it.  Threads of other nodes go on while reset() works.
ResetQuiet ==
    \E n \in Nodes, deep \in BOOLEAN : NoRunIn(Reachable({n})) /\ Reset(n, deep)

NextQuiet ==
    \/ Next
    \/ ResetQuiet
    \/ ResetGet
    \/ ResetState
    \/ ResetPromise
    \/ ResetCount
    \/ ResetTest

SpecQuiet == InitQuiet /\ [][NextQuiet]_vars

\* The driver calls reset( true ) on nodes that are Running.
ResetRunning == \E n \in Nodes : m_state[n] = "Running" /\ Reset(n, TRUE)

NextRunning ==
    \/ Next
    \/ ResetRunning
    \/ ResetGet
    \/ ResetState
    \/ ResetPromise
    \/ ResetCount
    \/ ResetTest

SpecRunning == Init /\ [][NextRunning]_vars

\* ------------------------------------------------------------ properties
Terminal == {"Completed", "Failed"}

\* the edges (parent, position in the parent's m_children) that lead to c
EdgesTo(c) ==
    UNION { { << p, k >> : k \in { j \in 1..Len(m_children[p]) : m_children[p][j] = c } }
            : p \in Nodes }

ParentsOf(c) == { e[1] : e \in EdgesTo(c) }

\* a worker thread of node p exists: it works, finalizes or fans out
Busy(p) == \E t \in BagToSet(threads) : t.node = p

\* p has finalized and its fan-out is over
Reported(p) == m_state[p] \in Terminal /\ m_promise_done[p] /\ ~Busy(p)

AllGated(c) == m_trigger_condition[c] = "AND" /\ Cardinality(ParentsOf(c)) >= 2

AnyGated(c) == m_trigger_condition[c] = "OR" /\ Cardinality(ParentsOf(c)) >= 2

\* C1: an AND-gated node under two or more parents that all finalize with
\* Completed is launched exactly once: never more than once, and once all
\* the fan-outs are over it has been launched.
C1_ExactlyOnce ==
    \A c \in Nodes :
        (AllGated(c) /\ \A p \in ParentsOf(c) : m_state[p] = "Completed")
            => /\ launched[c] <= 1
               /\ (\A p \in ParentsOf(c) : Reported(p)) => launched[c] = 1

\* C2: between construction or reset() and the next reset(), the worker of
\* a node is launched at most once, whatever its gate.
C2_AtMostOnce == \A n \in Nodes : launched[n] <= 1

\* C3: an AND-gated node under two or more parents leaves Created only
\* when every one of its parents has finalized.
C3_AllGateWaits ==
    \A c \in Nodes :
        (AllGated(c) /\ m_state[c] # "Created")
            => \A p \in ParentsOf(c) : m_promise_done[p]

\* C4: an OR-gated node under several parents is launched only when a
\* parent has reported Completed, and once it is launched no later signal
\* launches it again or touches its state: its state changes only by its
\* own worker finalizing.
C4_AnyGateFirstWins ==
    /\ [](\A c \in Nodes :
            (AnyGated(c) /\ launched[c] >= 1)
                => \E p \in ParentsOf(c) : m_promise_done[p])
    /\ [][\A c \in Nodes :
            (AnyGated(c) /\ launched[c] >= 1)
                => /\ launched'[c] = launched[c]
                   /\ m_state'[c] # m_state[c]
                        => m_state[c] = "Running" /\ m_state'[c] \in Terminal]_vars

\* C5: after the first set_completed / set_failed of a run a further call
\* is a no-op: it leaves the state the first call set and raises no error.
C5_IdempotentFinalize ==
    /\ [][\A t \in BagToSet(threads) : \A r \in Results(t.node) :
            FinalizeAgain(t, r) => m_state'[t.node] = m_state[t.node]]_vars
    /\ [][\A t \in BagToSet(threads) :
            (m_worker[t.node] = "twice" /\ ~t.again /\ DoneSetValue(t))
                => ~terminated']_vars

\* C6: wait_for_done() returns at once only for a node whose completion
\* signal is published, and a wait_for_done() that blocks on a node whose
\* signal is published is able to return.
C6_WaitCorrect ==
    /\ \A n \in Nodes : ~must_wait(n) => m_promise_done[n]
    /\ (driver.pc = "w_get" /\ m_promise_done[driver.c]) => ~terminated

\* C7: reset() of an AND-gated node that had run, with no worker thread
\* left, leaves the node's counter at the value the wiring gave it
\* (one per register_child call on it).  The counter is looked at when
\* reset() replaces the node's completion signal; no step of reset()
\* writes it.
C7_ResetRestoresCount ==
    [][(ResetPromise /\ threads = EmptyBag /\ m_promise_done[Top.node]
            /\ m_trigger_condition[Top.node] = "AND")
         => m_parent_count'[Top.node] = Len(m_children[Top.node])]_vars

\* C8: after wiring, the counter of every node is the number of edges that
\* lead to it: a registration counts on the child, not on the parent.
C8_CounterCountsParents ==
    driver.ops = 0
        => \A n \in Nodes : m_parent_count[n] = Cardinality(EdgesTo(n))

\* C9: the state of a node changes only Created -> Running,
\* Running -> Completed and Running -> Failed, and by reset() to Created.
C9_StateMachine ==
    [][\A n \in Nodes :
         m_state'[n] # m_state[n]
            => \/ m_state[n] = "Created" /\ m_state'[n] = "Running"
               \/ m_state[n] = "Running" /\ m_state'[n] \in Terminal
               \/ /\ driver.pc \in {"r_get", "r_state"} /\ Top.node = n
                  /\ m_state'[n] = "Created"]_vars

\* C10: when every parent of an AND-gated node in Created has reported a
\* terminal state, one of them Failed, the node's counter is zero.
C10_FailedIsCounted ==
    \A c \in Nodes :
        ( /\ m_trigger_condition[c] = "AND" /\ m_state[c] = "Created"
          /\ ParentsOf(c) # {}
          /\ \A p \in ParentsOf(c) : Reported(p)
          /\ \E p \in ParentsOf(c) : m_state[p] = "Failed" )
            => m_parent_count[c] = 0

\* C11: trigger() called on a node that is Running, Completed or Failed
\* returns at its first test: the call starts no worker and leaves the
\* node's state, counter, gate, children and completion signal as they
\* are, whatever parent_state it was given; called by the driver it changes
\* nothing at all.
C11_TriggerNoOp ==
    [][/\ \A t \in BagToSet(threads) :
            (t.pc = "t_check" /\ m_state[t.c] # "Created" /\ WorkerTrigger(t))
                => /\ threads' = Replace(t, fan_out(t, t.i + 1))
                   /\ UNCHANGED << m_state, wiring, m_parent_count,
                                   m_parent_done_count, m_promise_done,
                                   promise_storage, m_is_done, launched >>
       /\ \A n \in Nodes :
            (m_state[n] # "Created" /\ Trigger(n)) => UNCHANGED vars]_vars

\* an OR-gated node under two parents that have both reported Completed
\* was launched once: the later signal found it no longer Created
C11_Witness ==
    \E c \in Nodes :
        /\ AnyGated(c) /\ launched[c] = 1 /\ m_state[c] # "Created"
        /\ \A p \in ParentsOf(c) : Reported(p) /\ m_state[p] = "Completed"

\* a worker of node n that has not yet published the completion signal
InFlight(n) ==
    \E t \in BagToSet(threads) :
        t.node = n
        /\ t.pc \in {"work", "set_value", "set_value_replaced", "work_again"}

\* C12: reset() called on a Running node waits for the run: the call
\* blocks in wait_for_done(), and when it goes on the node is Completed or
\* Failed (the state never goes from Running to Created) and no worker of
\* the node is still about to publish on the signal that reset() replaces.
C12_ResetWaitsForRun ==
    [][/\ (driver.pc # "r_state" /\ driver'.pc = "r_state")
            => m_state[driver'.stack[Len(driver'.stack)].node] # "Running"
       /\ ResetGet => m_state[Top.node] \in Terminal /\ ~InFlight(Top.node)]_vars

\* C13 as stated: when reset( true ), called on a node with no run in
\* flight in its subgraph (the calls of SpecQuiet), returns, that node and
\* every node reachable from it through the children lists is Created,
\* with a whole promise that holds no value and a valid future.
C13_DeepResetSubgraph ==
    [][(ResetCount /\ driver.deep /\ driver'.pc = "idle")
         => \A n \in Reachable({driver.stack[1].node}) :
               /\ m_state'[n] = "Created"
               /\ ~m_promise_done'[n] /\ promise_storage'[n] /\ m_is_done'[n]]_vars

\* C13: when reset( true ), called on a node with no run in flight in its
\* subgraph nor in any node from which a node of the subgraph can be
\* reached, returns, that node and every node reachable from it through
\* the children lists is Created, with a whole promise that holds no value
\* and a valid future, whatever the threads of other nodes do meanwhile.
C13_DeepReset ==
    [][(ResetCount /\ driver.deep /\ driver.clear /\ driver'.pc = "idle")
         => \A n \in Reachable({driver.stack[1].node}) :
               /\ m_state'[n] = "Created"
               /\ ~m_promise_done'[n] /\ promise_storage'[n] /\ m_is_done'[n]]_vars

\* such a reset( true ) has reached a grandchild that has two parents and
\* had run
C13_Witness ==
    /\ driver.pc = "r_promise" /\ driver.deep /\ driver.clear
    /\ Len(driver.stack) = 3
    /\ m_promise_done[Top.node]
    /\ Cardinality(ParentsOf(Top.node)) >= 2

\* the graph of execute_if_any_finished( {R}, {A, B} ) with R = 1 made by
\* make_empty_root(), A = 2 and B = 3, and no other edge
Fork ==
    /\ m_worker[1] = "empty_root"
    /\ m_children[1] = << 2, 3 >>
    /\ \A n \in Nodes \ {1} : m_children[n] = << >>
    /\ m_trigger_condition[2] = "OR" /\ m_trigger_condition[3] = "OR"

\* C14: in that graph a call R.trigger() leads to R Completed with A and B
\* each launched once, and a wait_for_done() blocked on A or on B returns
\* once that node has published its signal, whatever the other one does.
C14_ForkRuns ==
    /\ (Fork /\ driver.pc \in TriggerPcs /\ driver.c = 1)
          ~> (m_state[1] = "Completed" /\ launched[2] = 1 /\ launched[3] = 1)
    /\ \A n \in {2, 3} :
          (Fork /\ driver.pc = "w_get" /\ driver.c = n /\ m_promise_done[n])
              ~> (driver.pc = "idle" /\ ~m_is_done[n])

\* wait_for_done() on A has returned while the worker of B has not finalized
C14_Witness ==
    /\ Fork /\ driver.pc = "idle" /\ driver.ops = MaxOps
    /\ m_state[1] = "Completed" /\ m_state[2] \in Terminal /\ ~m_is_done[2]
    /\ m_state[3] = "Running"

\* C15: a wiring call decides the gate of each of its children, whatever
\* an earlier call had set: after execute_if_any_finished every child of
\* the call has condition OR, after execute_if_all_finished AND, and the
\* condition of every other node is what it was.  The condition is one
\* field of the node, so it holds for all the edges that lead to it.
C15_LastWiringDecides ==
    [][\A a \in WireArgs :
         /\ ExecuteIfAnyFinished(a[1], a[2])
               => \A n \in Nodes :
                     m_trigger_condition'[n] =
                        IF n \in a[2] THEN "OR" ELSE m_trigger_condition[n]
         /\ ExecuteIfAllFinished(a[1], a[2])
               => \A n \in Nodes :
                     m_trigger_condition'[n] =
                        IF n \in a[2] THEN "AND" ELSE m_trigger_condition[n]]_vars

\* a node was wired twice as a child of the same parent, and its gate is
\* OR: the last of the two calls was execute_if_any_finished
C15_Witness ==
    /\ driver.wires = 2
    /\ \E c \in Nodes :
          /\ m_trigger_condition[c] = "OR"
          /\ Cardinality(EdgesTo(c)) > Cardinality(ParentsOf(c))

\* some worker has reported Failed, or the process was terminated
Disturbed == terminated \/ \E n \in Nodes : m_state[n] = "Failed"

\* a node without children
IsSink(n) == m_children[n] = << >>

\* C16: a trigger() of root 1 leads to every node reachable from it being
\* Completed or Failed, and a wait_for_done() on a sink reachable from a
\* root that was launched returns, provided that no worker reports Failed
\* and the process is not terminated.
C16_GraphRuns ==
    /\ (driver.pc \in TriggerPcs /\ driver.c = 1)
          ~> (Disturbed \/ \A n \in Reachable({1}) : m_state[n] \in Terminal)
    /\ \A n \in Nodes :
          (driver.pc = "w_get" /\ driver.c = n /\ IsSink(n)
                /\ n \in Reachable({1}) /\ launched[1] >= 1)
              ~> (Disturbed \/ driver.pc = "idle")

\* C17: when done() calls trigger() on a child, the state of its node is
\* Completed or Failed, the node's promise holds its value, and the
\* parent_state that the child is given (the node's state as read then)
\* is the result this done() was called with.
C17_FanoutAfterFinalize ==
    [][\A t \in BagToSet(threads) :
         DoneFanout(t)
            => /\ m_state[t.node] \in Terminal
               /\ m_promise_done[t.node]
               /\ m_state[t.node] = t.result]_vars

\* C18: done( Failed ) writes the state of its own node only, and a call
\* trigger( Failed ) returns at its first test: it launches nothing and
\* changes no node's state or counter.  An OR-gated node one of whose
\* parents has reported Failed and another Completed has been launched.
C18_FailedLeavesOthers ==
    /\ [][\A t \in BagToSet(threads) :
            /\ Finalize(t, "Failed")
                  => /\ \A n \in Nodes \ {t.node} : m_state'[n] = m_state[n]
                     /\ UNCHANGED << m_parent_count, launched >>
            /\ (t.pc = "t_check" /\ t.ps = "Failed" /\ WorkerTrigger(t))
                  => /\ threads' = Replace(t, fan_out(t, t.i + 1))
                     /\ UNCHANGED << m_state, m_parent_count, launched >>]_vars
    /\ [](\A c \in Nodes :
            ( /\ m_trigger_condition[c] = "OR"
              /\ \E p \in ParentsOf(c) : Reported(p) /\ m_state[p] = "Failed"
              /\ \E p \in ParentsOf(c) : Reported(p) /\ m_state[p] = "Completed" )
                => launched[c] >= 1 /\ m_state[c] # "Created")

\* an OR-gated node with a parent that reported Failed and one that
\* reported Completed was launched once
C18_Witness ==
    \E c \in Nodes :
        /\ m_trigger_condition[c] = "OR" /\ launched[c] = 1
        /\ \E p \in ParentsOf(c) : Reported(p) /\ m_state[p] = "Failed"
        /\ \E p \in ParentsOf(c) : Reported(p) /\ m_state[p] = "Completed"

\* C19: when reset( true ), called on a Running node, returns, that node
\* and all nodes reachable from it are Created and none of them has been
\* launched since it was reset; and a done() whose node has been reset
\* since it finalized launches no child and decrements no counter.
C19_ResetEndsFanout ==
    /\ [][(ResetCount /\ driver'.pc = "idle")
            => \A n \in Reachable({driver.stack[1].node}) :
                  m_state'[n] = "Created" /\ launched'[n] = 0]_vars
    /\ [][\A t \in BagToSet(threads) :
            (WorkerTrigger(t) /\ m_state[t.node] = "Created")
                => UNCHANGED << m_state, m_parent_count, launched >>]_vars

\* node c has parents, and each of them ran once and finalized with Failed
AllParentsFailed(c) ==
    /\ ParentsOf(c) # {}
    /\ \A p \in ParentsOf(c) : m_state[p] = "Failed" /\ launched[p] = 1

\* C20: a node all of whose parents finalized with Failed is Created, was
\* never launched and has published no signal, and no wait_for_done() on
\* it returns.
C20_FailureStopsBranch ==
    /\ [](\A c \in Nodes :
            AllParentsFailed(c)
                => m_state[c] = "Created" /\ launched[c] = 0 /\ ~m_promise_done[c])
    /\ [][WaitGet => ~AllParentsFailed(driver.c)]_vars

\* every parent of a node has reported Failed, no thread is left, and the
\* driver is blocked in wait_for_done() on the node
C20_Witness ==
    \E c \in Nodes :
        /\ AllParentsFailed(c) /\ \A p \in ParentsOf(c) : Reported(p)
        /\ Cardinality(ParentsOf(c)) >= 2
        /\ threads = EmptyBag
        /\ driver.pc = "w_get" /\ driver.c = c

====
